---- MODULE Spec2Model ----
(***************************************************************************)
(* Model of the spy-detection game of tp_jeu: the arbiter (server.py,      *)
(* class ServeurArbitre), one agent with its publication threads           *)
(* (capteur.py, class CapteurTemperature) and the analysis of an agent     *)
(* (capteur.py, class AnalyseurIA), each under its own specification.      *)
(*                                                                         *)
(* Participant ids "rpi1".."rpi4" are written 1..4 (the order of the       *)
(* integers is the lexicographic order of the strings); 0 stands for       *)
(* Python's None / a missing value and IdInconnu for any id that is not in *)
(* capteurs_ids.  paho-mqtt runs on_message on the single network-loop     *)
(* thread (loop_forever), so one handled message is one atomic step.  Each *)
(* method is an operator from the object before the call to the object     *)
(* after it.                                                               *)
(***************************************************************************)
EXTENDS Integers, Sequences, FiniteSets, TLC

VARIABLES
    capteur,            \* one agent: the CapteurTemperature object, its publication
                        \* threads and its publications on the bus
    role_attribue,      \* the role the arbiter assigned to this agent for the round
    analyse,            \* one call of AnalyseurIA.analyser_espion: its arguments,
                        \* the answer of the analysis service and its result
    execution,          \* the lock of one agent and the position of its network
                        \* thread and of its publication threads in their code
    systeme,            \* the four agents and the messages in flight to the arbiter
    source,             \* the answers the telemetry source gave to the requests of
                        \* the agent, in the order of the requests
    generation,         \* one call of GenerateurTemperatureEspion: its method, its
                        \* argument, its draws and the temperature it returns
    serveur,            \* the ServeurArbitre object: its fields, the lines the last
                        \* on_message call printed, its publications on the bus
    presences_recues,   \* the participants whose presence the bus delivered since the
                        \* last announced result
    apres_resultat      \* a result has been announced, and the bus has delivered
                        \* nothing but presence messages since

vars == <<serveur, presences_recues, apres_resultat, capteur, role_attribue, analyse,
          execution, systeme, source, generation>>

(***************************************************************************)
(* Configuration of the participants (ServeurArbitre.__init__)             *)
(***************************************************************************)
capteurs_ids == <<1, 2, 3, 4>>

Ids == {capteurs_ids[i] : i \in 1..Len(capteurs_ids)}

None == 0

IdInconnu == Len(capteurs_ids) + 1

(***************************************************************************)
(* Messages delivered by the bus to on_message                             *)
(***************************************************************************)
\* the participants a vote message may accuse are the ids up to MaxSuspect
MaxSuspect == 2

\* payload of a message: empty (Vide), or else not JSON, or a JSON object whose
\* "suspect" field is absent (0), a participant id, or an unknown id
Vide == [forme |-> "vide", suspect |-> None]

Payloads ==
    {[forme |-> "malforme", suspect |-> None]}
      \cup {[forme |-> "json", suspect |-> s] :
               s \in {i \in Ids : i <= MaxSuspect} \cup {None, IdInconnu}}

Msg(t, c, p) == [topic |-> t, capteur_id |-> c, payload |-> p]

\* the presence payload is never parsed: it is a JSON object or bytes that
\* are not JSON; the payload of a vote whose sender is unknown is never read,
\* and a message with an empty payload is dropped whatever its topic: one
\* representative of each is enough
Messages ==
    {Msg("presence", c, [forme |-> "json", suspect |-> None]) : c \in Ids \cup {IdInconnu}}
      \cup {Msg("presence", 1, [forme |-> "malforme", suspect |-> None])}
      \cup {Msg("votes", c, p) : c \in Ids, p \in Payloads}
      \cup {Msg("votes", IdInconnu, [forme |-> "json", suspect |-> 1])}
      \cup {Msg("votes", 1, Vide)}

\* one line of the arbiter's console
Ev(e, i, v) == [ev |-> e, id |-> i, val |-> v]

\* one publication of the arbiter on the bus: iot/config, or iot/role/<id>
Pub(t, i, r) == [topic |-> t, id |-> i, role |-> r]

Lignes(s) == {s[i] : i \in 1..Len(s)}

Imprimer(self, lignes) == [self EXCEPT !.sortie = @ \o lignes]

(***************************************************************************)
(* Python dict, in insertion order, as a sequence of <<key, value>> pairs  *)
(***************************************************************************)
\* position of key k in d, 0 if absent
Position(d, k) ==
    IF \E i \in 1..Len(d) : d[i][1] = k
      THEN CHOOSE i \in 1..Len(d) : d[i][1] = k
      ELSE 0

\* d[k] = v: an existing key keeps its place, a new key goes last
Affecter(d, k, v) ==
    IF Position(d, k) = 0
      THEN Append(d, <<k, v>>)
      ELSE [d EXCEPT ![Position(d, k)] = <<k, v>>]

\* d.get(k, 0)
Obtenir(d, k) == IF Position(d, k) = 0 THEN 0 ELSE d[Position(d, k)][2]

(***************************************************************************)
(* Pure helpers of determiner_gagnant                                      *)
(***************************************************************************)
\* comptage = {}; for capteur_id, suspect_id in self.votes.items():
\*     comptage[suspect_id] = comptage.get(suspect_id, 0) + 1
RECURSIVE compter(_, _)
compter(v, comptage) ==
    IF v = <<>> THEN comptage
    ELSE compter(Tail(v), Affecter(comptage, Head(v)[2], Obtenir(comptage, Head(v)[2]) + 1))

\* max(comptage, key=comptage.get): the first key, in iteration order, whose
\* count is not exceeded by any other
RECURSIVE min_cle(_, _)
\* variant: min instead of max
min_cle(comptage, meilleur) ==
    IF comptage = <<>> THEN meilleur[1]
    ELSE min_cle(Tail(comptage),
                 IF Head(comptage)[2] < meilleur[2] THEN Head(comptage) ELSE meilleur)

RECURSIVE max_cle(_, _)
max_cle(comptage, meilleur) ==
    IF comptage = <<>> THEN meilleur[1]
    ELSE max_cle(Tail(comptage),
                 IF Head(comptage)[2] > meilleur[2] THEN Head(comptage) ELSE meilleur)

suspect_designe(v) == max_cle(Tail(compter(v, <<>>)), Head(compter(v, <<>>)))

\* sorted(comptage.items(), key=lambda x: x[1], reverse=True): stable, so that
\* entries with equal counts keep their iteration order
RECURSIVE inserer(_, _)
inserer(x, l) ==
    IF l = <<>> THEN <<x>>
    ELSE IF Head(l)[2] >= x[2] THEN <<Head(l)>> \o inserer(x, Tail(l))
    ELSE <<x>> \o l

RECURSIVE trier(_)
trier(comptage) ==
    IF comptage = <<>> THEN <<>>
    ELSE inserer(comptage[Len(comptage)], trier(SubSeq(comptage, 1, Len(comptage) - 1)))

\* the lines "<suspect>: <n> vote(s)" of the distribution of the votes
repartition(v) ==
    [i \in 1..Len(compter(v, <<>>)) |->
        Ev("repartition", trier(compter(v, <<>>))[i][1], trier(compter(v, <<>>))[i][2])]

(***************************************************************************)
(* reinitialiser_partie                                                    *)
(***************************************************************************)
\* variant: the flag of the round in progress is not cleared
reinitialiser_partie_sans_drapeau(self) ==
    Imprimer([self EXCEPT !.votes = <<>>,
                          !.nb_votes_recus = 0,
                          !.espion_id = None,
                          !.capteurs_connectes = {}],
             <<Ev("reinitialise", 0, 0)>>)

\* variant: the recorded votes are not cleared
reinitialiser_partie_sans_votes(self) ==
    Imprimer([self EXCEPT !.nb_votes_recus = 0,
                          !.espion_id = None,
                          !.capteurs_connectes = {},
                          !.partie_en_cours = FALSE],
             <<Ev("reinitialise", 0, 0)>>)

reinitialiser_partie(self) ==
    Imprimer([self EXCEPT !.votes = <<>>,
                          !.nb_votes_recus = 0,
                          !.espion_id = None,
                          !.capteurs_connectes = {},
                          !.partie_en_cours = FALSE],
             <<Ev("reinitialise", 0, 0)>>)

(***************************************************************************)
(* determiner_gagnant                                                      *)
(***************************************************************************)
\* the winner announced: suspect_designe == self.espion_id
\* variant: the comparison is inverted
vainqueur_inverse(suspect, espion) ==
    IF suspect # espion THEN "victoire_capteurs" ELSE "victoire_espion"

vainqueur(suspect, espion) ==
    IF suspect = espion THEN "victoire_capteurs" ELSE "victoire_espion"

determiner_gagnant(self) ==
    IF self.espion_id = None
      THEN \* self.capteurs_ips[self.espion_id] raises KeyError(None), which the
           \* except clause of traiter_vote prints: nothing is reset
           Imprimer(self, <<Ev("analyse", 0, 0)>> \o repartition(self.votes)
                            \o <<Ev("erreur_vote", 0, 0)>>)
      ELSE \* the result is announced: the publications of the round are over
           reinitialiser_partie(
             [Imprimer(self, <<Ev("analyse", 0, 0)>> \o repartition(self.votes)
                         \o <<Ev("suspect_designe", suspect_designe(self.votes), 0),
                              Ev("espion_reel", self.espion_id, 0),
                              Ev(vainqueur(suspect_designe(self.votes), self.espion_id), 0, 0)>>)
                EXCEPT !.publies = <<>>])

(***************************************************************************)
(* demarrer_jeu; e is the value of random.choice(self.capteurs_ids)        *)
(***************************************************************************)
\* variant: the comparison with the spy's id is inverted
roles_publies_inverses(e) ==
    [i \in 1..Len(capteurs_ids) |->
        Pub("role", capteurs_ids[i], IF capteurs_ids[i] # e THEN "espion" ELSE "normal")]

roles_publies(e) ==
    [i \in 1..Len(capteurs_ids) |->
        Pub("role", capteurs_ids[i], IF capteurs_ids[i] = e THEN "espion" ELSE "normal")]

\* variant: the roles are published before the configuration
demarrer_jeu_roles_d_abord(self, e) ==
    Imprimer([self EXCEPT !.partie_en_cours = TRUE,
                          !.espion_id = e,
                          !.publies = @ \o roles_publies(e) \o <<Pub("config", None, "")>>],
             <<Ev("demarrage", 0, 0), Ev("espion_designe", e, 0)>>)

demarrer_jeu(self, e) ==
    Imprimer([self EXCEPT !.partie_en_cours = TRUE,
                          !.espion_id = e,
                          !.publies = @ \o <<Pub("config", None, "")>> \o roles_publies(e)],
             <<Ev("demarrage", 0, 0), Ev("espion_designe", e, 0)>>)

(***************************************************************************)
(* traiter_presence                                                        *)
(***************************************************************************)
\* len(self.capteurs_connectes) == len(self.capteurs_ids) and not self.partie_en_cours
\* variant: one participant short
quorum_atteint_a_un_pres(self) ==
    Cardinality(self.capteurs_connectes) >= Len(capteurs_ids) - 1 /\ ~self.partie_en_cours

quorum_atteint(self) ==
    Cardinality(self.capteurs_connectes) = Len(capteurs_ids) /\ ~self.partie_en_cours

\* self.capteurs_connectes.add(capteur_id), and the line "<id> connecté [n/N]"
enregistrer_capteur(self, capteur_id) ==
    Imprimer([self EXCEPT !.capteurs_connectes = @ \cup {capteur_id}],
             <<Ev("connecte", 0, 0)>>)

\* variant: no test of a participant already registered
traiter_presence_sans_doublon(self, capteur_id, e) ==
    IF capteur_id \notin Ids
      THEN self
    ELSE IF quorum_atteint(enregistrer_capteur(self, capteur_id))
      THEN demarrer_jeu(enregistrer_capteur(self, capteur_id), e)
    ELSE enregistrer_capteur(self, capteur_id)

traiter_presence(self, capteur_id, e) ==
    IF capteur_id \notin Ids
      THEN self
    ELSE IF capteur_id \in self.capteurs_connectes
      THEN self
    ELSE IF quorum_atteint(enregistrer_capteur(self, capteur_id))
      THEN demarrer_jeu(enregistrer_capteur(self, capteur_id), e)
    ELSE enregistrer_capteur(self, capteur_id)

(***************************************************************************)
(* traiter_vote                                                            *)
(***************************************************************************)
\* variant: strict comparison
tous_votes_recus_strict(self) == self.nb_votes_recus > Len(capteurs_ids)

\* self.nb_votes_recus >= len(self.capteurs_ids)
tous_votes_recus(self) == self.nb_votes_recus >= Len(capteurs_ids)

\* variant: the vote is recorded and the counter left as it was
enregistrer_vote_sans_compteur(self, capteur_id, suspect_id) ==
    Imprimer([self EXCEPT !.votes = Affecter(@, capteur_id, suspect_id)],
             <<Ev("vote_recu", capteur_id, suspect_id)>>)

\* self.votes[capteur_id] = suspect_id; self.nb_votes_recus += 1, after the
\* line "Vote reçu de <id> : accuse <suspect>"
enregistrer_vote(self, capteur_id, suspect_id) ==
    Imprimer([self EXCEPT !.votes = Affecter(@, capteur_id, suspect_id),
                          !.nb_votes_recus = @ + 1],
             <<Ev("vote_recu", capteur_id, suspect_id)>>)

\* variant: no test of a vote already recorded for the sender
traiter_vote_sans_doublon(self, capteur_id, payload) ==
    IF capteur_id \notin Ids
      THEN self
    ELSE IF payload.forme = "malforme"
      THEN Imprimer(self, <<Ev("erreur_vote", 0, 0)>>)
    ELSE IF payload.suspect = None \/ payload.suspect \notin Ids
      THEN Imprimer(self, <<Ev("vote_invalide", 0, 0)>>)
    ELSE IF tous_votes_recus(enregistrer_vote(self, capteur_id, payload.suspect))
      THEN determiner_gagnant(enregistrer_vote(self, capteur_id, payload.suspect))
    ELSE enregistrer_vote(self, capteur_id, payload.suspect)

\* variant: no test of the accused id
traiter_vote_sans_validation(self, capteur_id, payload) ==
    IF capteur_id \notin Ids
      THEN self
    ELSE IF Position(self.votes, capteur_id) # 0
      THEN self
    ELSE IF payload.forme = "malforme"
      THEN Imprimer(self, <<Ev("erreur_vote", 0, 0)>>)
    ELSE IF tous_votes_recus(enregistrer_vote(self, capteur_id, payload.suspect))
      THEN determiner_gagnant(enregistrer_vote(self, capteur_id, payload.suspect))
    ELSE enregistrer_vote(self, capteur_id, payload.suspect)

traiter_vote(self, capteur_id, payload) ==
    IF capteur_id \notin Ids
      THEN self
    ELSE IF Position(self.votes, capteur_id) # 0
      THEN self
    ELSE IF payload.forme = "malforme"
      THEN Imprimer(self, <<Ev("erreur_vote", 0, 0)>>)
    ELSE IF payload.suspect = None \/ payload.suspect \notin Ids
      THEN Imprimer(self, <<Ev("vote_invalide", 0, 0)>>)
    ELSE IF tous_votes_recus(enregistrer_vote(self, capteur_id, payload.suspect))
      THEN determiner_gagnant(enregistrer_vote(self, capteur_id, payload.suspect))
    ELSE enregistrer_vote(self, capteur_id, payload.suspect)

(***************************************************************************)
(* on_message: sortie holds the lines of the current call only             *)
(***************************************************************************)
on_message(self, msg, e) ==
    IF msg.payload.forme = "vide"
      THEN [self EXCEPT !.sortie = <<>>]
    ELSE IF msg.topic = "presence"
      THEN traiter_presence([self EXCEPT !.sortie = <<>>], msg.capteur_id, e)
      ELSE traiter_vote([self EXCEPT !.sortie = <<>>], msg.capteur_id, msg.payload)

(***************************************************************************)
(* The agent (capteur.py).  Temperatures are written in tenths of a degree. *)
(***************************************************************************)
\* one publication of an agent on the bus: a temperature sample or a vote
PubC(t, v) == [topic |-> t, val |-> v]

\* keys of a dict, in iteration order: list(d.keys())
Cles(d) == [i \in 1..Len(d) |-> d[i][1]]

\* number of all the values of the lists of the dict d
RECURSIVE TailleDict(_)
TailleDict(d) == IF d = <<>> THEN 0 ELSE Len(Head(d)[2]) + TailleDict(Tail(d))

(***************************************************************************)
(* GenerateurTemperatureEspion; valeur_poisson is the value drawn by        *)
(* np.random.poisson(self.lambda_poisson)                                   *)
(***************************************************************************)
Min2(a, b) == IF a < b THEN a ELSE b

Max2(a, b) == IF a > b THEN a ELSE b

\* round(temperature, 1) of a temperature given in hundredths of a degree:
\* the nearest tenth, and the even one of the two when both are as near
arrondir(centiemes) ==
    LET q == centiemes \div 10
        r == centiemes % 10
    IN  IF r < 5 THEN q
        ELSE IF r > 5 THEN q + 1
        ELSE IF q % 2 = 0 THEN q ELSE q + 1

\* variant: the temperature is returned as computed
generer_temperature_aberrante_sans_bornes(valeur_poisson) ==
    -100 + 35 * valeur_poisson

\* offset + scale * valeur_poisson with offset = -10 and scale = 3.5, which is
\* a whole number of tenths, then max(-50.0, min(60.0, temperature))
generer_temperature_aberrante(valeur_poisson) ==
    Max2(-500, Min2(600, -100 + 35 * valeur_poisson))

\* temperature_base is the optional argument: fournie is FALSE for None, and
\* valeur is in hundredths of a degree; valeur_poisson is the draw of
\* np.random.poisson and signe the one of random.choice([-1, 1])
generer_temperature_avec_perturbation(temperature_base, valeur_poisson, signe) ==
    IF ~temperature_base.fournie
      THEN generer_temperature_aberrante(valeur_poisson)
      ELSE Max2(-500, Min2(600, arrondir(temperature_base.valeur
                                           + signe * 350 * valeur_poisson)))

(***************************************************************************)
(* AnalyseurIA.  service is what the analysis service does for this call:   *)
(* "indisponible" (ollama_disponible is False), "sans_reponse"              *)
(* (_appeler_ollama returns None or an empty text), "invalide" (no JSON     *)
(* object, a required field missing, or a suspect that is not a string      *)
(* starting with "rpi"), "valide" (a JSON object with a suspect "rpi..."    *)
(* and a confidence, in percent).  The field preuves of a valid answer is   *)
(* "liste" when it is absent or a JSON array, "non_iterable" when it is     *)
(* null or a number: _valider_analyse does not look at its value.  choix is *)
(* the index random.choice picks.  The result is the returned dict, with    *)
(* requete: the call posted a request to the analysis service.              *)
(***************************************************************************)
vote_espion(mon_id, autres_capteurs_ids, choix) ==
    IF autres_capteurs_ids = <<>>
      THEN [suspect |-> 1, confiance |-> 60, preuves |-> "liste", requete |-> FALSE]
      ELSE [suspect |-> autres_capteurs_ids[choix], confiance |-> 65,
            preuves |-> "liste", requete |-> FALSE]

vote_aleatoire(mon_id, autres_capteurs_ids, choix) ==
    IF autres_capteurs_ids = <<>>
      THEN [suspect |-> 1, confiance |-> 25, preuves |-> "liste", requete |-> FALSE]
      ELSE [suspect |-> autres_capteurs_ids[choix], confiance |-> 25,
            preuves |-> "liste", requete |-> FALSE]

\* max(0.0, min(1.0, float(confiance)))
normaliser_confiance(confiance) == Max2(0, Min2(100, confiance))

\* variant: the service is asked before the role is looked at
analyser_espion_service_d_abord(mon_id, mes_temperatures, temperatures_autres, je_suis_espion, service, choix) ==
    IF service.etat = "indisponible"
      THEN IF je_suis_espion
             THEN vote_espion(mon_id, Cles(temperatures_autres), choix)
             ELSE vote_aleatoire(mon_id, Cles(temperatures_autres), choix)
    ELSE IF je_suis_espion
      THEN [vote_espion(mon_id, Cles(temperatures_autres), choix) EXCEPT !.requete = TRUE]
    ELSE IF service.etat = "valide"
      THEN [suspect |-> service.suspect,
            confiance |-> normaliser_confiance(service.confiance),
            preuves |-> service.preuves, requete |-> TRUE]
    ELSE [vote_aleatoire(mon_id, Cles(temperatures_autres), choix) EXCEPT !.requete = TRUE]

analyser_espion(mon_id, mes_temperatures, temperatures_autres, je_suis_espion, service, choix) ==
    IF je_suis_espion
      THEN vote_espion(mon_id, Cles(temperatures_autres), choix)
    ELSE IF service.etat = "indisponible"
      THEN vote_aleatoire(mon_id, Cles(temperatures_autres), choix)
    ELSE IF service.etat = "sans_reponse"
      THEN [vote_aleatoire(mon_id, Cles(temperatures_autres), choix) EXCEPT !.requete = TRUE]
    ELSE IF service.etat = "valide"
      THEN [suspect |-> service.suspect,
            confiance |-> normaliser_confiance(service.confiance),
            preuves |-> service.preuves, requete |-> TRUE]
    ELSE [vote_aleatoire(mon_id, Cles(temperatures_autres), choix) EXCEPT !.requete = TRUE]

\* the indexes random.choice may pick in a list (one dummy index when the list
\* is empty and nothing is drawn)
Choix(l) == IF l = <<>> THEN {1} ELSE 1..Len(l)

(***************************************************************************)
(* CapteurTemperature: the object, the publication threads it started      *)
(* (fils) and what it published (publies)                                   *)
(***************************************************************************)
MAX_PUBLICATIONS == 5

CapteurTemperature(capteur_id) ==
    [capteur_id |-> capteur_id,
     role |-> "aucun",
     tous_capteurs |-> <<>>,
     config_recue |-> FALSE,
     role_recu |-> FALSE,
     temperatures_recues |-> <<>>,
     mes_temperatures_publiees |-> <<>>,
     nb_publications |-> 0,
     publication_terminee |-> FALSE,
     fils |-> <<>>,
     publies |-> <<>>]

\* variant: the thread is started without the test of the configuration
demarrer_si_pret_sans_configuration(self) ==
    IF self.role_recu /\ self.nb_publications = 0
      THEN [self EXCEPT !.fils = Append(@, [pc |-> "obtenir", i |-> 0, temperature |-> 0,
                                            attente |-> 0])]
      ELSE self

\* threading.Thread(target=self.publier_temperatures).start(): the thread is
\* about to fetch its first sample
demarrer_si_pret(self) ==
    IF self.config_recue /\ self.role_recu /\ self.nb_publications = 0
      THEN [self EXCEPT !.fils = Append(@, [pc |-> "obtenir", i |-> 0, temperature |-> 0,
                                            attente |-> 0])]
      ELSE self

\* variant: the configuration is recorded and nothing is started
traiter_configuration_sans_demarrage(self, payload) ==
    IF payload.forme # "json"
      THEN self
      ELSE [self EXCEPT !.tous_capteurs = capteurs_ids,
                        !.config_recue = TRUE]

traiter_configuration(self, payload) ==
    IF payload.forme # "json"
      THEN self
      ELSE demarrer_si_pret([self EXCEPT !.tous_capteurs = capteurs_ids,
                                         !.config_recue = TRUE])

traiter_role(self, payload) ==
    IF payload.forme # "json"
      THEN self
      ELSE demarrer_si_pret([self EXCEPT !.role = payload.role,
                                         !.role_recu = TRUE])

\* self.temperatures_recues[capteur_source].append(temperature), on a
\* defaultdict(list)
traiter_temperature_recue(self, capteur_source, payload) ==
    IF payload.forme # "json"
      THEN self
      ELSE [self EXCEPT !.temperatures_recues =
              Affecter(@, capteur_source,
                       IF Position(@, capteur_source) = 0 THEN <<payload.temperature>>
                       ELSE Append(@[Position(@, capteur_source)][2], payload.temperature))]

capteur_on_message(self, msg) ==
    IF msg.payload.forme = "vide"
      THEN self
    ELSE IF msg.topic = "config"
      THEN traiter_configuration(self, msg.payload)
    ELSE IF msg.topic = "role"
      THEN IF msg.capteur_id = self.capteur_id THEN traiter_role(self, msg.payload) ELSE self
    ELSE IF msg.capteur_id # self.capteur_id
      THEN traiter_temperature_recue(self, msg.capteur_id, msg.payload)
    ELSE self

\* the request returned status 200 and a body that holds
\* current_weather.temperature as a number
lecture_reussie(lecture) == lecture.statut = 200 /\ lecture.corps = "valide"

\* variant: the body is read whatever the status
obtenir_temperature_sans_statut(self, lecture, valeur_poisson) ==
    IF self.role = "espion" THEN generer_temperature_aberrante(valeur_poisson)
    ELSE IF lecture.corps = "valide" THEN arrondir(lecture.temperature)
    ELSE 100

\* lecture is the answer of the telemetry source: its status (0 when the
\* request raises an exception), its body ("valide", or "invalide" when
\* response.json() or the access to the reading raises) and the temperature
\* it reports, in hundredths of a degree; valeur_poisson is the value the
\* generator draws.  The result is in tenths of a degree.
obtenir_temperature(self, lecture, valeur_poisson) ==
    IF self.role = "espion" THEN generer_temperature_aberrante(valeur_poisson)
    ELSE IF lecture_reussie(lecture) THEN arrondir(lecture.temperature)
    ELSE 100

\* publier_temperatures, thread t: temperature = self.obtenir_temperature()
lire_temperature(self, t, lecture, valeur_poisson) ==
    [self EXCEPT !.fils[t].temperature = obtenir_temperature(self, lecture, valeur_poisson),
                 !.fils[t].pc = "enregistrer"]

\* publier_temperatures, thread t: the sample is recorded under the lock and
\* published; the thread then sleeps before the next one, or leaves the loop
enregistrer_et_publier(self, t) ==
    [self EXCEPT !.mes_temperatures_publiees = Append(@, self.fils[t].temperature),
                 !.nb_publications = @ + 1,
                 !.publies = Append(@, PubC("temperature", self.fils[t].temperature)),
                 !.fils[t].i = @ + 1,
                 !.fils[t].pc = IF self.fils[t].i + 1 < MAX_PUBLICATIONS THEN "obtenir" ELSE "fin"]

\* publier_temperatures, thread t: end of the loop and time.sleep(3); attente
\* is the time, in seconds, the thread waits before it analyses
terminer_publication(self, t) ==
    [self EXCEPT !.publication_terminee = TRUE,
                 !.fils[t].attente = 3,
                 !.fils[t].pc = "analyse"]

voter(self, suspect_id) ==
    [self EXCEPT !.publies = Append(@, PubC("vote", suspect_id))]

\* an honest agent prints the evidence of the analysis before it votes:
\* "for preuve in analyse.get('preuves', [])" raises TypeError on a value that
\* is not iterable, nothing catches it and the thread ends without a vote
analyser_et_voter(self, t, service, choix) ==
    LET je_suis_espion == self.role = "espion"
        analyse_ia == analyser_espion(self.capteur_id,
                                      self.mes_temperatures_publiees,
                                      self.temperatures_recues,
                                      je_suis_espion, service, choix)
    IN  IF ~je_suis_espion /\ analyse_ia.preuves = "non_iterable"
          THEN [self EXCEPT !.fils[t].pc = "erreur"]
          ELSE [voter(self, analyse_ia.suspect) EXCEPT !.fils[t].pc = "fini"]

(***************************************************************************)
(* The lock of one agent: the code of the handlers and of the publication  *)
(* thread as sequences of instructions.  "verrouiller" and "deverrouiller" *)
(* are the entry and the exit of a "with self.lock:" block, "lire",        *)
(* "ecrire" and "demarrer" access the fields champs, "appel" is a call     *)
(* that may block (a request, a publication, a sleep).                     *)
(***************************************************************************)
Ins(op, champs, ligne) == [op |-> op, champs |-> champs, ligne |-> ligne]

etapes_demarrer_si_pret ==
    <<Ins("verrouiller", {}, 600),
      Ins("demarrer", {"config_recue", "role_recu", "nb_publications"}, 601),
      Ins("deverrouiller", {}, 603)>>

etapes_traiter_configuration ==
    <<Ins("verrouiller", {}, 540),
      Ins("ecrire", {"tous_capteurs", "villes_coords", "capteurs_ips", "config_recue"}, 541),
      Ins("deverrouiller", {}, 549)>>
      \o etapes_demarrer_si_pret

etapes_traiter_role ==
    <<Ins("verrouiller", {}, 564),
      Ins("ecrire", {"role", "role_recu"}, 565),
      Ins("deverrouiller", {}, 566),
      Ins("lire", {"role"}, 568)>>
      \o etapes_demarrer_si_pret

etapes_traiter_temperature_recue ==
    <<Ins("verrouiller", {}, 592),
      Ins("ecrire", {"temperatures_recues"}, 593),
      Ins("deverrouiller", {}, 593)>>

\* variant: the sample is recorded outside the lock
iteration_sans_verrou(i) ==
    <<Ins("lire", {"role"}, 612),
      Ins("appel", {}, 626),
      Ins("ecrire", {"mes_temperatures_publiees", "nb_publications"}, 649),
      Ins("verrouiller", {}, 648),
      Ins("deverrouiller", {}, 650),
      Ins("appel", {}, 660)>>
      \o (IF i < MAX_PUBLICATIONS - 1 THEN <<Ins("appel", {}, 668)>> ELSE <<>>)

\* variant: the sample is published before the lock is released
iteration_publication_sous_verrou(i) ==
    <<Ins("lire", {"role"}, 612),
      Ins("appel", {}, 626),
      Ins("verrouiller", {}, 648),
      Ins("ecrire", {"mes_temperatures_publiees", "nb_publications"}, 649),
      Ins("appel", {}, 660),
      Ins("deverrouiller", {}, 650)>>
      \o (IF i < MAX_PUBLICATIONS - 1 THEN <<Ins("appel", {}, 668)>> ELSE <<>>)

\* one turn of the loop of publier_temperatures: obtenir_temperature, the
\* record of the sample, its publication, time.sleep(5)
iteration(i) ==
    <<Ins("lire", {"role"}, 612),
      Ins("appel", {}, 626),
      Ins("verrouiller", {}, 648),
      Ins("ecrire", {"mes_temperatures_publiees", "nb_publications"}, 649),
      Ins("deverrouiller", {}, 650),
      Ins("appel", {}, 660)>>
      \o (IF i < MAX_PUBLICATIONS - 1 THEN <<Ins("appel", {}, 668)>> ELSE <<>>)

RECURSIVE boucle(_)
boucle(i) == IF i = MAX_PUBLICATIONS THEN <<>> ELSE iteration(i) \o boucle(i + 1)

etapes_analyser_et_voter ==
    <<Ins("verrouiller", {}, 693),
      Ins("lire", {"mes_temperatures_publiees", "temperatures_recues"}, 694),
      Ins("deverrouiller", {}, 695),
      Ins("lire", {"role"}, 698),
      Ins("appel", {}, 701),
      Ins("appel", {}, 731)>>

etapes_publier_temperatures ==
    boucle(0)
      \o <<Ins("verrouiller", {}, 671),
           Ins("ecrire", {"publication_terminee"}, 672),
           Ins("deverrouiller", {}, 672),
           Ins("appel", {}, 678)>>
      \o etapes_analyser_et_voter

Etapes(methode) ==
    CASE methode = "traiter_configuration" -> etapes_traiter_configuration
      [] methode = "traiter_role" -> etapes_traiter_role
      [] methode = "traiter_temperature_recue" -> etapes_traiter_temperature_recue
      [] OTHER -> <<>>

\* the processes of the agent: 1 is the network thread, 1 + t the
\* publication thread t
Processus(ex) == 1..(1 + Len(ex.fils))

\* the instruction process p is about to execute
Courante(ex, p) ==
    IF p = 1
      THEN IF ex.reseau.methode = "repos" THEN Ins("repos", {}, 0)
           ELSE Etapes(ex.reseau.methode)[ex.reseau.pc]
      ELSE IF ex.fils[p - 1].pc > Len(etapes_publier_temperatures) THEN Ins("fini", {}, 0)
           ELSE etapes_publier_temperatures[ex.fils[p - 1].pc]

\* process p goes to its next instruction; the handler returns after its last
Avancer(ex, p) ==
    IF p = 1
      THEN IF ex.reseau.pc = Len(Etapes(ex.reseau.methode))
             THEN [ex EXCEPT !.reseau = [methode |-> "repos", pc |-> 1]]
             ELSE [ex EXCEPT !.reseau.pc = @ + 1]
      ELSE [ex EXCEPT !.fils[p - 1].pc = @ + 1]

\* what the access ins does to the fields that decide the start of a thread
effet(ex, ins) ==
    IF ins.op = "ecrire"
      THEN [ex EXCEPT !.config_recue = @ \/ "config_recue" \in ins.champs,
                      !.role_recu = @ \/ "role_recu" \in ins.champs,
                      !.nb_publications =
                          IF "nb_publications" \in ins.champs THEN @ + 1 ELSE @]
    ELSE IF ins.op = "demarrer" /\ ex.config_recue /\ ex.role_recu /\ ex.nb_publications = 0
      THEN [ex EXCEPT !.fils = Append(@, [pc |-> 1])]
    ELSE ex

(***************************************************************************)
(* The arbiter and the bus                                                 *)
(***************************************************************************)
\* a result was announced by the call whose trace is s
ResultatAnnonce(s) == \E i \in 1..Len(s) : s[i].ev = "reinitialise"

InitServeur ==
    /\ serveur = [espion_id |-> None,
                  votes |-> <<>>,
                  nb_votes_recus |-> 0,
                  capteurs_connectes |-> {},
                  partie_en_cours |-> FALSE,
                  sortie |-> <<>>,
                  publies |-> <<>>]
    /\ presences_recues = {}
    /\ apres_resultat = FALSE

\* no call of the analysis is under way
AucuneAnalyse ==
    [mon_id |-> None, mes_temperatures |-> <<>>, temperatures_autres |-> <<>>,
     je_suis_espion |-> FALSE,
     service |-> [etat |-> "indisponible", suspect |-> None, confiance |-> 0,
                  preuves |-> "liste"],
     resultat |-> [suspect |-> None, confiance |-> 0, preuves |-> "liste",
                   requete |-> FALSE]]

\* no thread of the agent runs
AucuneExecution ==
    [verrou |-> 0, reseau |-> [methode |-> "repos", pc |-> 1], fils |-> <<>>,
     config_recue |-> FALSE, role_recu |-> FALSE, nb_publications |-> 0]

\* no call of the generator is under way
AucuneGeneration ==
    [methode |-> "aucune", temperature_base |-> [fournie |-> FALSE, valeur |-> 0],
     valeur_poisson |-> 0, signe |-> 1, faite |-> FALSE, temperature |-> 0]

\* no agent is connected
AucunSysteme == [agents |-> <<>>, connectes |-> {}, en_vol |-> {}]

\* the arbiter alone: the agent is constructed and receives nothing
Init ==
    /\ InitServeur
    /\ source = <<>>
    /\ generation = AucuneGeneration
    /\ capteur = CapteurTemperature(1)
    /\ role_attribue = "normal"
    /\ analyse = AucuneAnalyse
    /\ execution = AucuneExecution
    /\ systeme = AucunSysteme

RecevoirPresence ==
    \E msg \in Messages :
        /\ msg.topic = "presence"
        /\ serveur' \in {on_message(serveur, msg, e) : e \in Ids}
        /\ presences_recues' =
             IF msg.payload = Vide THEN presences_recues
             ELSE presences_recues \cup ({msg.capteur_id} \cap Ids)
        /\ UNCHANGED <<apres_resultat, capteur, role_attribue, analyse, execution, systeme,
                       source, generation>>

RecevoirVote ==
    \E msg \in Messages :
        /\ msg.topic = "votes"
        /\ serveur' = on_message(serveur, msg, None)
        /\ presences_recues' =
             IF ResultatAnnonce(serveur'.sortie) THEN {} ELSE presences_recues
        /\ apres_resultat' = ResultatAnnonce(serveur'.sortie)
        /\ UNCHANGED <<capteur, role_attribue, analyse, execution, systeme,
                       source, generation>>

Next == RecevoirPresence \/ RecevoirVote

Spec == Init /\ [][Next]_vars

\* the network loop of the arbiter handles every message the bus delivers
SpecEquitable == Spec /\ WF_vars(RecevoirPresence) /\ WF_vars(RecevoirVote)

(***************************************************************************)
(* One agent, its publication threads and the bus                          *)
(***************************************************************************)
\* at most MaxFils publication threads are started
MaxFils == 2

\* telemetry is delivered from the participants up to MaxSource
MaxSource == 2

\* at most MaxRecues samples of the peers are delivered
MaxRecues == 6

\* the answers of the telemetry source and the draws of the generator
Lectures == {[statut |-> 0, corps |-> "aucun", temperature |-> 0]}

Tirages == {15}

ChargeUtile(f, r, t) == [forme |-> f, role |-> r, temperature |-> t]

\* the subscriptions of on_connect: iot/config, iot/role/<own id> and the
\* telemetry of every participant, its own included
MessagesCapteur ==
    {Msg("config", None, ChargeUtile(f, "", 0)) : f \in {"json", "malforme"}}
      \cup {Msg("role", capteur.capteur_id, ChargeUtile("json", role_attribue, 0))}
      \cup {Msg("role", capteur.capteur_id, ChargeUtile("vide", "", 0))}
      \cup {Msg("temperature", c, ChargeUtile(f, "", 100)) :
               c \in {i \in Ids : i <= MaxSource}, f \in {"json", "malforme"}}

\* what the analysis service may do for one call
Services ==
    {[etat |-> e, suspect |-> None, confiance |-> 0, preuves |-> "liste"] :
        e \in {"indisponible", "sans_reponse", "invalide"}}
      \cup {[etat |-> "valide", suspect |-> s, confiance |-> 85, preuves |-> pr] :
               s \in Ids \cup {IdInconnu}, pr \in {"liste", "non_iterable"}}

InitCapteur ==
    /\ InitServeur
    /\ source = <<>>
    /\ generation = AucuneGeneration
    /\ capteur \in {CapteurTemperature(c) : c \in Ids}
    /\ role_attribue \in {"espion", "normal"}
    /\ analyse = AucuneAnalyse
    /\ execution = AucuneExecution
    /\ systeme = AucunSysteme

\* the network loop delivers one message to on_message
CapteurRecevoir ==
    \E msg \in MessagesCapteur :
        /\ capteur' = capteur_on_message(capteur, msg)
        /\ Len(capteur'.fils) <= MaxFils
        /\ TailleDict(capteur'.temperatures_recues) <= MaxRecues
        /\ UNCHANGED <<serveur, presences_recues, apres_resultat, role_attribue, analyse, execution, systeme,
                       source, generation>>

\* a publication thread fetches its next sample
LireTemperature ==
    \E t \in 1..Len(capteur.fils), lecture \in Lectures, valeur_poisson \in Tirages :
        /\ capteur.fils[t].pc = "obtenir"
        /\ capteur' = lire_temperature(capteur, t, lecture, valeur_poisson)
        /\ UNCHANGED <<serveur, presences_recues, apres_resultat, role_attribue, analyse, execution, systeme,
                       source, generation>>

EnregistrerEtPublier ==
    \E t \in 1..Len(capteur.fils) :
        /\ capteur.fils[t].pc = "enregistrer"
        /\ capteur' = enregistrer_et_publier(capteur, t)
        /\ UNCHANGED <<serveur, presences_recues, apres_resultat, role_attribue, analyse, execution, systeme,
                       source, generation>>

TerminerPublication ==
    \E t \in 1..Len(capteur.fils) :
        /\ capteur.fils[t].pc = "fin"
        /\ capteur' = terminer_publication(capteur, t)
        /\ UNCHANGED <<serveur, presences_recues, apres_resultat, role_attribue, analyse, execution, systeme,
                       source, generation>>

AnalyserEtVoter ==
    \E t \in 1..Len(capteur.fils), service \in Services,
       choix \in Choix(capteur.temperatures_recues) :
        /\ capteur.fils[t].pc = "analyse"
        /\ capteur' = analyser_et_voter(capteur, t, service, choix)
        /\ UNCHANGED <<serveur, presences_recues, apres_resultat, role_attribue, analyse, execution, systeme,
                       source, generation>>

NextCapteur ==
    \/ CapteurRecevoir
    \/ LireTemperature
    \/ EnregistrerEtPublier
    \/ TerminerPublication
    \/ AnalyserEtVoter

SpecCapteur == InitCapteur /\ [][NextCapteur]_vars

\* the same agent with fewer threads and less telemetry: at most MaxFilsReduit
\* publication threads are started and MaxRecuesReduit samples delivered
MaxFilsReduit == 1

MaxRecuesReduit == 1

CapteurRecevoirReduit ==
    \E msg \in MessagesCapteur :
        /\ capteur' = capteur_on_message(capteur, msg)
        /\ Len(capteur'.fils) <= MaxFilsReduit
        /\ TailleDict(capteur'.temperatures_recues) <= MaxRecuesReduit
        /\ UNCHANGED <<serveur, presences_recues, apres_resultat, role_attribue, analyse,
                       execution, systeme,
                       source, generation>>

NextCapteurReduit ==
    \/ CapteurRecevoirReduit
    \/ LireTemperature
    \/ EnregistrerEtPublier
    \/ TerminerPublication
    \/ AnalyserEtVoter

SpecCapteurReduit == InitCapteur /\ [][NextCapteurReduit]_vars

\* every started publication thread keeps running: its sleeps are finite and
\* its requests have a timeout
SpecCapteurEquitable ==
    /\ SpecCapteur
    /\ WF_vars(LireTemperature)
    /\ WF_vars(EnregistrerEtPublier)
    /\ WF_vars(TerminerPublication)
    /\ WF_vars(AnalyserEtVoter)

(***************************************************************************)
(* One call of AnalyseurIA.analyser_espion                                  *)
(***************************************************************************)
\* at most MaxCles peers have collected samples
MaxCles == 3

ListesTemperatures == {<<100, 100, 100>>, <<300, 310, 290>>}

\* the dicts of collected samples an agent can hold: on_message never
\* records a sample under the agent's own id, and a key exists only once a
\* sample was appended to its list
DictsRecus(mon_id) ==
    {d \in UNION {[1..n -> ((Ids \cup {IdInconnu}) \ {mon_id}) \X ListesTemperatures] :
                     n \in 0..MaxCles} :
        \A i, j \in 1..Len(d) : d[i][1] = d[j][1] => i = j}

InitAnalyse ==
    /\ InitServeur
    /\ source = <<>>
    /\ generation = AucuneGeneration
    /\ capteur = CapteurTemperature(1)
    /\ role_attribue = "normal"
    /\ execution = AucuneExecution
    /\ systeme = AucunSysteme
    /\ \E m \in Ids :
          analyse \in {[mon_id |-> m, mes_temperatures |-> <<100, 100, 100>>,
                        temperatures_autres |-> d, je_suis_espion |-> b, service |-> sv,
                        resultat |-> [suspect |-> None, confiance |-> 0,
                                      preuves |-> "liste", requete |-> FALSE]] :
                          d \in DictsRecus(m), b \in BOOLEAN, sv \in Services}

Analyser ==
    /\ analyse.resultat.suspect = None
    /\ \E choix \in Choix(analyse.temperatures_autres) :
          analyse' = [analyse EXCEPT !.resultat =
                        analyser_espion(analyse.mon_id, analyse.mes_temperatures,
                                        analyse.temperatures_autres, analyse.je_suis_espion,
                                        analyse.service, choix)]
    /\ UNCHANGED <<serveur, presences_recues, apres_resultat, capteur, role_attribue, execution, systeme,
                       source, generation>>

NextAnalyse == Analyser

SpecAnalyse == InitAnalyse /\ [][NextAnalyse]_vars

(***************************************************************************)
(* One agent, instruction by instruction, and its lock                     *)
(***************************************************************************)
\* at most MaxFilsVerrou publication threads are started
MaxFilsVerrou == 1

InitVerrou ==
    /\ InitServeur
    /\ source = <<>>
    /\ generation = AucuneGeneration
    /\ capteur = CapteurTemperature(1)
    /\ role_attribue = "normal"
    /\ analyse = AucuneAnalyse
    /\ systeme = AucunSysteme
    /\ execution = AucuneExecution

\* the network loop calls the handler of the message it received
RecevoirMessage ==
    \E methode \in {"traiter_configuration", "traiter_role", "traiter_temperature_recue"} :
        /\ execution.reseau.methode = "repos"
        /\ \/ methode = "traiter_temperature_recue"
           \/ execution.nb_publications > 0
           \/ Len(execution.fils) < MaxFilsVerrou
        /\ execution' = [execution EXCEPT !.reseau = [methode |-> methode, pc |-> 1]]
        /\ UNCHANGED <<serveur, presences_recues, apres_resultat, capteur, role_attribue,
                       analyse, systeme,
                       source, generation>>

\* threading.Lock: a process enters a "with self.lock:" block when no process
\* holds the lock, and waits otherwise
Verrouiller ==
    \E p \in Processus(execution) :
        /\ Courante(execution, p).op = "verrouiller"
        /\ execution.verrou = 0
        /\ execution' = Avancer([execution EXCEPT !.verrou = p], p)
        /\ UNCHANGED <<serveur, presences_recues, apres_resultat, capteur, role_attribue,
                       analyse, systeme,
                       source, generation>>

Deverrouiller ==
    \E p \in Processus(execution) :
        /\ Courante(execution, p).op = "deverrouiller"
        /\ execution' = Avancer([execution EXCEPT !.verrou = 0], p)
        /\ UNCHANGED <<serveur, presences_recues, apres_resultat, capteur, role_attribue,
                       analyse, systeme,
                       source, generation>>

Acceder ==
    \E p \in Processus(execution) :
        /\ Courante(execution, p).op \in {"lire", "ecrire", "demarrer"}
        /\ execution' = Avancer(effet(execution, Courante(execution, p)), p)
        /\ UNCHANGED <<serveur, presences_recues, apres_resultat, capteur, role_attribue,
                       analyse, systeme,
                       source, generation>>

Appeler ==
    \E p \in Processus(execution) :
        /\ Courante(execution, p).op = "appel"
        /\ execution' = Avancer(execution, p)
        /\ UNCHANGED <<serveur, presences_recues, apres_resultat, capteur, role_attribue,
                       analyse, systeme,
                       source, generation>>

NextVerrou ==
    \/ RecevoirMessage
    \/ Verrouiller
    \/ Deverrouiller
    \/ Acceder
    \/ Appeler

SpecVerrou == InitVerrou /\ [][NextVerrou]_vars

(***************************************************************************)
(* The arbiter, the four agents and the bus.  An agent runs its            *)
(* publication loop in one step, and the bus delivers its samples to the   *)
(* other agents in that step.                                              *)
(***************************************************************************)
\* publier_temperatures of thread t, from its first sample to the end of its
\* loop (each step is computed once, then the rest of the loop from its value)
RECURSIVE publier_tout(_, _, _, _)
publier_tout(self, t, lecture, valeur_poisson) ==
    IF self.fils[t].pc = "obtenir"
      THEN CHOOSE fin \in {publier_tout(suite, t, lecture, valeur_poisson) :
                             suite \in {lire_temperature(self, t, lecture, valeur_poisson)}} : TRUE
    ELSE IF self.fils[t].pc = "enregistrer"
      THEN CHOOSE fin \in {publier_tout(suite, t, lecture, valeur_poisson) :
                             suite \in {enregistrer_et_publier(self, t)}} : TRUE
    ELSE IF self.fils[t].pc = "fin"
      THEN terminer_publication(self, t)
    ELSE self

\* on_message of the agent self for each sample of the list temperatures that
\* the agent capteur_source published
RECURSIVE recevoir_tout(_, _, _)
recevoir_tout(self, capteur_source, temperatures) ==
    IF temperatures = <<>>
      THEN self
      ELSE CHOOSE fin \in {recevoir_tout(suite, capteur_source, Tail(temperatures)) :
                             suite \in {capteur_on_message(self,
                                           Msg("temperature", capteur_source,
                                               ChargeUtile("json", "", Head(temperatures))))}} : TRUE

\* the answers of the analysis service in the system: it is unavailable, or
\* it gives a valid answer that names an id no participant has
ReponsesSysteme ==
    {sv \in Services : sv.etat = "indisponible"
                          \/ (sv.etat = "valide" /\ sv.suspect = IdInconnu)}

\* in the system random.choice draws the first element of its list
ChoixSysteme(l) == {i \in Choix(l) : i = 1}

\* the thread of agent c publishes its samples and every other agent handles
\* them
publier_et_diffuser(agents, c, lecture, valeur_poisson) ==
    CHOOSE fin \in {[i \in 1..Len(capteurs_ids) |->
                        IF i = c THEN apres
                        ELSE recevoir_tout(agents[i], c, apres.mes_temperatures_publiees)] :
                     apres \in {publier_tout(agents[c], 1, lecture, valeur_poisson)}} : TRUE

InitSysteme ==
    /\ InitServeur
    /\ source = <<>>
    /\ generation = AucuneGeneration
    /\ capteur = CapteurTemperature(1)
    /\ role_attribue = "normal"
    /\ analyse = AucuneAnalyse
    /\ execution = AucuneExecution
    /\ systeme = [agents |-> [i \in 1..Len(capteurs_ids) |-> CapteurTemperature(capteurs_ids[i])],
                  connectes |-> {},
                  en_vol |-> {}]

\* on_connect of an agent: it publishes its presence
Connecter ==
    \E c \in Ids \ systeme.connectes :
        /\ systeme' = [systeme EXCEPT
                         !.connectes = @ \cup {c},
                         !.en_vol = @ \cup {Msg("presence", c,
                                                [forme |-> "json", suspect |-> None])}]
        /\ UNCHANGED <<serveur, presences_recues, apres_resultat, capteur, role_attribue,
                       analyse, execution,
                       source, generation>>

\* the bus delivers a presence or a vote to the arbiter
ServeurRecevoir ==
    \E msg \in systeme.en_vol, e \in Ids :
        /\ serveur' = on_message(serveur, msg, IF msg.topic = "presence" THEN e ELSE None)
        /\ systeme' = [systeme EXCEPT !.en_vol = @ \ {msg}]
        /\ UNCHANGED <<presences_recues, apres_resultat, capteur, role_attribue,
                       analyse, execution,
                       source, generation>>

\* the bus delivers to an agent the configuration and its role of the round
AgentRecevoirRole ==
    \E c \in Ids, k \in 1..Len(serveur.publies) :
        /\ ~systeme.agents[c].role_recu
        /\ serveur.publies[k].topic = "role"
        /\ serveur.publies[k].id = c
        /\ systeme' = [systeme EXCEPT !.agents[c] =
                         capteur_on_message(
                            capteur_on_message(@, Msg("config", None, ChargeUtile("json", "", 0))),
                            Msg("role", c, ChargeUtile("json", serveur.publies[k].role, 0)))]
        /\ UNCHANGED <<serveur, presences_recues, apres_resultat, capteur, role_attribue,
                       analyse, execution,
                       source, generation>>

\* the publication thread of an agent publishes its samples, which the bus
\* delivers to the other agents
AgentPublier ==
    \E c \in Ids, lecture \in Lectures, valeur_poisson \in Tirages :
        /\ Len(systeme.agents[c].fils) = 1
        /\ systeme.agents[c].fils[1].pc = "obtenir"
        /\ systeme' = [systeme EXCEPT !.agents = publier_et_diffuser(@, c, lecture, valeur_poisson)]
        /\ UNCHANGED <<serveur, presences_recues, apres_resultat, capteur, role_attribue,
                       analyse, execution,
                       source, generation>>

\* the publication thread of an agent analyses and votes
AgentVoter ==
    \E c \in Ids, service \in ReponsesSysteme :
        /\ Len(systeme.agents[c].fils) = 1
        /\ systeme.agents[c].fils[1].pc = "analyse"
        /\ \E choix \in ChoixSysteme(systeme.agents[c].temperatures_recues) :
              LET apres == analyser_et_voter(systeme.agents[c], 1, service, choix)
              IN  systeme' = [systeme EXCEPT
                                !.agents[c] = apres,
                                !.en_vol =
                                   IF apres.fils[1].pc = "fini"
                                     THEN @ \cup {Msg("votes", c,
                                                      [forme |-> "json",
                                                       suspect |-> apres.publies[Len(apres.publies)].val])}
                                     ELSE @]
        /\ UNCHANGED <<serveur, presences_recues, apres_resultat, capteur, role_attribue,
                       analyse, execution,
                       source, generation>>

NextSysteme ==
    \/ Connecter
    \/ ServeurRecevoir
    \/ AgentRecevoirRole
    \/ AgentPublier
    \/ AgentVoter

SpecSysteme == InitSysteme /\ [][NextSysteme]_vars

\* every agent connects, the bus delivers every message, every thread runs and
\* every call of the analysis service returns
SpecSystemeEquitable ==
    /\ SpecSysteme
    /\ WF_vars(Connecter)
    /\ WF_vars(ServeurRecevoir)
    /\ WF_vars(AgentRecevoirRole)
    /\ WF_vars(AgentPublier)
    /\ WF_vars(AgentVoter)

(***************************************************************************)
(* One agent and the telemetry source                                      *)
(***************************************************************************)
\* the readings of the source, in hundredths of a degree
TemperaturesSource == {1230, 1234, -57}

\* the answers of the source: an exception of requests.get (timeout, no
\* connection), a status that is not 200, a status 200 with a body that
\* cannot be read, a status 200 with a reading
LecturesSource ==
    {[statut |-> 0, corps |-> "aucun", temperature |-> 0],
     [statut |-> 500, corps |-> "valide", temperature |-> 1234],
     [statut |-> 200, corps |-> "invalide", temperature |-> 0]}
      \cup {[statut |-> 200, corps |-> "valide", temperature |-> t] :
               t \in TemperaturesSource}

InitSource ==
    /\ InitServeur
    /\ source = <<>>
    /\ generation = AucuneGeneration
    /\ capteur = CapteurTemperature(1)
    /\ role_attribue \in {"espion", "normal"}
    /\ analyse = AucuneAnalyse
    /\ execution = AucuneExecution
    /\ systeme = AucunSysteme

\* the network loop delivers the configuration and the role of the round
SourceDemarrer ==
    /\ capteur.fils = <<>>
    /\ capteur' = capteur_on_message(
                     capteur_on_message(capteur,
                                        Msg("config", None, ChargeUtile("json", "", 0))),
                     Msg("role", capteur.capteur_id, ChargeUtile("json", role_attribue, 0)))
    /\ UNCHANGED <<serveur, presences_recues, apres_resultat, role_attribue, analyse,
                   execution, systeme, source, generation>>

\* the publication thread fetches its next sample; an honest agent sends a
\* request to the source, which answers lecture
SourceRepondre ==
    \E lecture \in LecturesSource, valeur_poisson \in Tirages :
        /\ Len(capteur.fils) = 1
        /\ capteur.fils[1].pc = "obtenir"
        /\ capteur' = lire_temperature(capteur, 1, lecture, valeur_poisson)
        /\ source' = IF capteur.role = "espion" THEN source ELSE Append(source, lecture)
        /\ UNCHANGED <<serveur, presences_recues, apres_resultat, role_attribue, analyse,
                       execution, systeme, generation>>

SourcePublier ==
    /\ Len(capteur.fils) = 1
    /\ capteur.fils[1].pc = "enregistrer"
    /\ capteur' = enregistrer_et_publier(capteur, 1)
    /\ UNCHANGED <<serveur, presences_recues, apres_resultat, role_attribue, analyse,
                   execution, systeme, source, generation>>

NextSource ==
    \/ SourceDemarrer
    \/ SourceRepondre
    \/ SourcePublier

SpecSource == InitSource /\ [][NextSource]_vars

(***************************************************************************)
(* One call of GenerateurTemperatureEspion                                 *)
(***************************************************************************)
\* np.random.poisson draws a value of 0..MaxTirage
MaxTirage == 40

\* the values of the argument temperature_base, in hundredths of a degree
BasesGenerateur == {-6000, -57, 1234, 7000}

InitGenerateur ==
    /\ InitServeur
    /\ source = <<>>
    /\ capteur = CapteurTemperature(1)
    /\ role_attribue = "espion"
    /\ analyse = AucuneAnalyse
    /\ execution = AucuneExecution
    /\ systeme = AucunSysteme
    /\ generation \in
         {[methode |-> "generer_temperature_aberrante",
           temperature_base |-> [fournie |-> FALSE, valeur |-> 0],
           valeur_poisson |-> v, signe |-> 1, faite |-> FALSE, temperature |-> 0] :
              v \in 0..MaxTirage}
           \cup {[methode |-> "generer_temperature_avec_perturbation",
                  temperature_base |-> tb,
                  valeur_poisson |-> v, signe |-> sg, faite |-> FALSE, temperature |-> 0] :
                     tb \in {[fournie |-> FALSE, valeur |-> 0]}
                              \cup {[fournie |-> TRUE, valeur |-> b] : b \in BasesGenerateur},
                     v \in 0..MaxTirage, sg \in {-1, 1}}

Generer ==
    /\ ~generation.faite
    /\ generation' =
         [generation EXCEPT
            !.faite = TRUE,
            !.temperature =
               IF generation.methode = "generer_temperature_aberrante"
                 THEN generer_temperature_aberrante(generation.valeur_poisson)
                 ELSE generer_temperature_avec_perturbation(generation.temperature_base,
                                                            generation.valeur_poisson,
                                                            generation.signe)]
    /\ UNCHANGED <<serveur, presences_recues, apres_resultat, capteur, role_attribue,
                   analyse, execution, systeme, source>>

NextGenerateur == Generer

SpecGenerateur == InitGenerateur /\ [][NextGenerateur]_vars

(***************************************************************************)
(* Properties                                                              *)
(***************************************************************************)
\* the participants that have a recorded vote
Votants(v) == {v[i][1] : i \in 1..Len(v)}

\* number of occurrences of x in the sequence s
Occurrences(s, x) == Cardinality({i \in 1..Len(s) : s[i] = x})

\* the call whose trace is s printed a line of kind e
Imprime(s, e) == \E i \in 1..Len(s) : s[i].ev = e

\* number of votes of the dict v that accuse j
NbVoix(v, j) == Cardinality({i \in 1..Len(v) : v[i][2] = j})

\* the votes that were tallied by the call that led from self to a state
\* whose trace is s: the recorded ones and the one the call recorded
VotesComptes(self, s) == Affecter(self.votes, s[1].id, s[1].val)

\* C1: once a vote of participant p is recorded, handling any further vote
\* message of p (same or different accused id, or malformed) leaves the
\* recorded votes and the vote count unchanged, and with them the tally,
\* which determiner_gagnant counts from the recorded votes alone.
VoteIdempotent ==
    \A c \in Votants(serveur.votes), p \in Payloads \cup {Vide} :
        LET apres == on_message(serveur, Msg("votes", c, p), None)
        IN  /\ apres.votes = serveur.votes
            /\ apres.nb_votes_recus = serveur.nb_votes_recus

\* during a round the vote of participant 1 accusing 2 is recorded, a vote is
\* still missing, and the last message was dropped without a line
VoteEnregistrePuisMessageIgnore ==
    /\ serveur.partie_en_cours
    /\ Obtenir(serveur.votes, 1) = 2
    /\ serveur.nb_votes_recus = 3
    /\ serveur.sortie = <<>>

\* C2: in a started round every participant was sent exactly one role,
\* "espion" for exactly one of them and "normal" for the others, and the spy
\* named in an announced result is the participant that was sent "espion".
UnSeulEspion ==
    /\ [](serveur.partie_en_cours =>
            \E e \in Ids : \A i \in Ids :
               /\ Occurrences(serveur.publies, Pub("role", i, "espion"))
                     = (IF i = e THEN 1 ELSE 0)
               /\ Occurrences(serveur.publies, Pub("role", i, "normal"))
                     = (IF i = e THEN 0 ELSE 1))
    /\ [][\A i \in Ids \cup {None} :
            Ev("espion_reel", i, 0) \in Lignes(serveur'.sortie)
               => Pub("role", i, "espion") \in Lignes(serveur.publies)]_vars

\* a round was started and resolved, and its result names participant 2 as the spy
ResultatNommeEspion == Ev("espion_reel", 2, 0) \in Lignes(serveur.sortie)

\* C3: a round is started in exactly the steps in which the registered set
\* becomes the full participant set, and the configuration is published at
\* most once until the result of the round is announced.
QuorumUneFois ==
    /\ [](Occurrences(serveur.publies, Pub("config", None, "")) <= 1)
    /\ [][Imprime(serveur'.sortie, "demarrage")
            <=> (serveur.capteurs_connectes # Ids /\ serveur'.capteurs_connectes = Ids)]_vars

\* a round was started by the step that registered the fourth participant
\* and published the configuration once
PartieDemarreeUneFois ==
    /\ Imprime(serveur.sortie, "demarrage")
    /\ serveur.capteurs_connectes = Ids
    /\ Occurrences(serveur.publies, Pub("config", None, "")) = 1

\* C4: determiner_gagnant is entered in exactly the steps that record the
\* vote of the last participant without one; no participant has two
\* recorded votes; no step taken when every participant has a recorded vote
\* enters it again.
ResolutionQuandTousOntVote ==
    /\ [](/\ Len(serveur.votes) = Cardinality(Votants(serveur.votes))
          /\ Votants(serveur.votes) \subseteq Ids)
    /\ [][Imprime(serveur'.sortie, "analyse")
            <=> \E c \in Ids \ Votants(serveur.votes) :
                   /\ Len(serveur'.sortie) > 0
                   /\ serveur'.sortie[1] \in {Ev("vote_recu", c, s) : s \in Ids}
                   /\ Votants(serveur.votes) \cup {c} = Ids]_vars

\* the fourth vote of a round arrived, the votes were analysed and the result announced
ResolutionFaite ==
    /\ Imprime(serveur.sortie, "vote_recu")
    /\ Imprime(serveur.sortie, "analyse")
    /\ Imprime(serveur.sortie, "victoire_espion")

\* C5: the arbiter goes through its phases in order: a round is started only
\* while none is in progress, the votes are analysed only while a round is in
\* progress, the analysis ends with the reset, and the flag of the round in
\* progress changes in no other step.
OrdreDesPhases ==
    [][/\ Imprime(serveur'.sortie, "demarrage")
            => (~serveur.partie_en_cours /\ serveur'.partie_en_cours)
       /\ Imprime(serveur'.sortie, "analyse")
            => /\ serveur.partie_en_cours
               /\ ResultatAnnonce(serveur'.sortie)
               /\ ~serveur'.partie_en_cours
       /\ serveur'.partie_en_cours # serveur.partie_en_cours
            => (Imprime(serveur'.sortie, "demarrage") \/ Imprime(serveur'.sortie, "analyse"))]_vars

\* C6: the suspect named in an announced result has a number of votes, among
\* the votes tallied, that no other accused id exceeds.
SuspectMajoritaire ==
    [][\A i \in Ids :
         Ev("suspect_designe", i, 0) \in Lignes(serveur'.sortie)
           => \A j \in Ids : NbVoix(VotesComptes(serveur, serveur'.sortie), j)
                               <= NbVoix(VotesComptes(serveur, serveur'.sortie), i)]_vars

\* three of the four votes accuse participant 2, which the result names
\* (the example a->b, b->b, c->c, d->b with b = 2 and c = 1)
TroisVoixContreUn ==
    /\ Ev("repartition", 2, 3) \in Lignes(serveur.sortie)
    /\ Ev("repartition", 1, 1) \in Lignes(serveur.sortie)
    /\ Ev("suspect_designe", 2, 0) \in Lignes(serveur.sortie)

\* C7: when several accused ids share the maximum number of votes, the
\* suspect named in the result is the smallest of them.
PlusPetitEnCasDEgalite ==
    [][\A i \in Ids :
         Ev("suspect_designe", i, 0) \in Lignes(serveur'.sortie)
           => \A j \in Ids :
                NbVoix(VotesComptes(serveur, serveur'.sortie), j)
                   = NbVoix(VotesComptes(serveur, serveur'.sortie), i)
                  => i <= j]_vars

\* C8: an announced result is the victory of the sensors if and only if the
\* suspect it names is the participant that was sent the role "espion" in
\* that round; otherwise it is the victory of the spy.
VictoireSiEspionDesigne ==
    [][ResultatAnnonce(serveur'.sortie)
         => /\ Imprime(serveur'.sortie, "victoire_capteurs")
                 <=> \E i \in Ids :
                        /\ Ev("suspect_designe", i, 0) \in Lignes(serveur'.sortie)
                        /\ Pub("role", i, "espion") \in Lignes(serveur.publies)
            /\ Imprime(serveur'.sortie, "victoire_espion")
                 <=> ~Imprime(serveur'.sortie, "victoire_capteurs")]_vars

\* the sensors won a round
VictoireDesCapteurs ==
    /\ Imprime(serveur.sortie, "victoire_capteurs")
    /\ ResultatAnnonce(serveur.sortie)

\* C9: in the state that follows an announced result no participant is
\* registered, no spy is assigned, no vote is recorded, the vote count is
\* zero and no round is in progress.
EtatVideApresResultat ==
    Imprime(serveur.sortie, "suspect_designe")
       => /\ serveur.capteurs_connectes = {}
          /\ serveur.espion_id = None
          /\ serveur.votes = <<>>
          /\ serveur.nb_votes_recus = 0
          /\ ~serveur.partie_en_cours

\* a suspect was named and the arbiter printed that it is reset
ResultatPuisReinitialisation ==
    /\ Imprime(serveur.sortie, "suspect_designe")
    /\ serveur.sortie[Len(serveur.sortie)] = Ev("reinitialise", 0, 0)

\* C10: a configuration is published only when the presence of every
\* participant has been delivered since the last announced result (since the
\* start of the arbiter, for the first round).
QuorumFraisApresResultat ==
    Pub("config", None, "") \in Lignes(serveur.publies) => presences_recues = Ids

\* after an announced result the presence of each participant was delivered
\* again, and the step that registered the last one published the
\* configuration of the next round
PartieSuivanteDemarree ==
    /\ apres_resultat
    /\ Imprime(serveur.sortie, "demarrage")
    /\ Pub("config", None, "") \in Lignes(serveur.publies)

\* C11: a vote message delivered while no round is in progress is not
\* recorded: as long as no round is in progress, no step changes the recorded
\* votes, so that a round starts without any.
VotesHorsPartieIgnores ==
    [][~serveur.partie_en_cours => serveur'.votes = serveur.votes]_vars

\* C12: a round in progress is eventually resolved and the arbiter returns to
\* waiting for agents, whatever the votes that are delivered.
PartieFinitToujours == serveur.partie_en_cours ~> ~serveur.partie_en_cours

\* C13: a vote whose accused id is missing or unknown changes neither the
\* recorded votes nor the vote count, no recorded vote accuses an id outside
\* the participant set, and a valid vote the same sender casts next is
\* recorded if the sender had no recorded vote.
VoteInvalideRejete ==
    /\ \A i \in 1..Len(serveur.votes) : serveur.votes[i][2] \in Ids
    /\ \A c \in Ids \cup {IdInconnu}, s \in {None, IdInconnu} :
         LET apres == on_message(serveur, Msg("votes", c, [forme |-> "json", suspect |-> s]), None)
         IN  /\ apres.votes = serveur.votes
             /\ apres.nb_votes_recus = serveur.nb_votes_recus
             /\ c \in Ids \ Votants(serveur.votes)
                  => \A t \in Ids :
                       Ev("vote_recu", c, t) \in
                         Lignes(on_message(apres, Msg("votes", c, [forme |-> "json", suspect |-> t]),
                                           None).sortie)

\* during a round with a recorded vote, the last message was a vote rejected
\* for its accused id
VoteInvalidePendantPartie ==
    /\ serveur.partie_en_cours
    /\ serveur.nb_votes_recus = 1
    /\ serveur.sortie = <<Ev("vote_invalide", 0, 0)>>

\* C14: handling a presence message of an unknown id or of a participant
\* already registered prints nothing, publishes nothing and leaves every
\* field of the arbiter as it was.
PresenceIgnoreeSansEffet ==
    \A c \in {IdInconnu} \cup serveur.capteurs_connectes, e \in Ids :
        on_message(serveur, Msg("presence", c, [forme |-> "json", suspect |-> None]), e)
          = [serveur EXCEPT !.sortie = <<>>]

\* participants 1 and 2 are registered, a round is awaited, and the last
\* message was dropped without a line
PresenceEnDoubleIgnoree ==
    /\ serveur.capteurs_connectes = {1, 2}
    /\ presences_recues = {1, 2}
    /\ ~serveur.partie_en_cours
    /\ serveur.votes = <<>>
    /\ serveur.sortie = <<>>

\* number of publications of the agent on the topic t
NbPublies(t) ==
    Cardinality({i \in 1..Len(capteur.publies) : capteur.publies[i].topic = t})

\* sum of the values of a list
RECURSIVE Somme(_)
Somme(l) == IF l = <<>> THEN 0 ELSE Head(l) + Somme(Tail(l))

\* sum of all the values of the lists of the dict d
RECURSIVE SommeDict(_)
SommeDict(d) == IF d = <<>> THEN 0 ELSE Somme(Head(d)[2]) + SommeDict(Tail(d))

Abs(x) == IF x < 0 THEN -x ELSE x

\* |mean of peer k - mean of all values|, multiplied by the number of values
\* of peer k and by the number of all values
EcartFoisTailles(mes, d, k) ==
    Abs(Somme(d[k][2]) * (Len(mes) + TailleDict(d)) - (Somme(mes) + SommeDict(d)) * Len(d[k][2]))

\* the deviation of peer k is at least the deviation of peer j
EcartAuMoins(mes, d, k, j) ==
    EcartFoisTailles(mes, d, k) * Len(d[j][2]) >= EcartFoisTailles(mes, d, j) * Len(d[k][2])

\* C15: an agent publishes at most MAX_PUBLICATIONS samples in a round,
\* and exactly MAX_PUBLICATIONS once its publication is over, even when the
\* config or role message is delivered more than once.
ExactementKPublications ==
    /\ NbPublies("temperature") <= MAX_PUBLICATIONS
    /\ (capteur.fils # <<>> /\ \A t \in 1..Len(capteur.fils) : capteur.fils[t].pc = "fini")
          => NbPublies("temperature") = MAX_PUBLICATIONS

\* C16: an agent publishes at most one vote in a round.
UnSeulVotePublie == NbPublies("vote") <= 1

\* C17: the samples an agent has collected from one peer never exceed
\* MAX_PUBLICATIONS entries.
AuPlusKRecuesParPair ==
    \A k \in 1..Len(capteur.temperatures_recues) :
        Len(capteur.temperatures_recues[k][2]) <= MAX_PUBLICATIONS

\* C18: an agent whose role is "espion" publishes no vote that names itself.
EspionNeSAccusePas ==
    capteur.role = "espion" => PubC("vote", capteur.capteur_id) \notin Lignes(capteur.publies)

\* C19: the ids the analysis of an adversary can return are exactly the
\* participants other than itself, whatever the samples it collected.
CiblesEspionTousLesAutres ==
    (analyse.je_suis_espion /\ analyse.resultat.suspect # None)
       => {analyser_espion(analyse.mon_id, analyse.mes_temperatures,
                           analyse.temperatures_autres, TRUE, analyse.service, choix).suspect :
              choix \in Choix(analyse.temperatures_autres)}
            = Ids \ {analyse.mon_id}

\* C20: when the analysis service is unavailable, the suspect the analysis
\* of an honest agent returns is a peer whose mean deviates from the mean of
\* all collected values at least as much as the mean of every other peer.
RepliPlusGrandEcart ==
    (/\ ~analyse.je_suis_espion
     /\ analyse.service.etat = "indisponible"
     /\ analyse.temperatures_autres # <<>>
     /\ analyse.resultat.suspect # None)
       => \E k \in 1..Len(analyse.temperatures_autres) :
             /\ analyse.temperatures_autres[k][1] = analyse.resultat.suspect
             /\ \A j \in 1..Len(analyse.temperatures_autres) :
                   EcartAuMoins(analyse.mes_temperatures, analyse.temperatures_autres, k, j)

\* the result of the analysis was computed
AnalyseFaite == analyse.resultat.suspect # None

\* the results the fallback of an honest agent can return for this call
ResultatsDeRepli ==
    {[vote_aleatoire(analyse.mon_id, Cles(analyse.temperatures_autres), choix)
         EXCEPT !.requete = analyse.service.etat # "indisponible"] :
        choix \in Choix(analyse.temperatures_autres)}

\* C21: the fallback of an honest agent is deterministic: on the same own
\* and collected samples it returns one suspect only, and among the peers
\* whose deviation is the largest it returns the smallest id.
RepliDeterministe ==
    (/\ ~analyse.je_suis_espion
     /\ analyse.service.etat \in {"indisponible", "sans_reponse", "invalide"}
     /\ analyse.temperatures_autres # <<>>
     /\ AnalyseFaite)
       => /\ \A r \in ResultatsDeRepli : r.suspect = analyse.resultat.suspect
          /\ \A k \in 1..Len(analyse.temperatures_autres) :
                (\A j \in 1..Len(analyse.temperatures_autres) :
                    EcartAuMoins(analyse.mes_temperatures, analyse.temperatures_autres, k, j))
                  => analyse.resultat.suspect <= analyse.temperatures_autres[k][1]

\* C22: an answer of the analysis service that lacks a required field or
\* names a suspect outside the participant set is not the decision of an
\* honest agent: the result is a result of the fallback.
ReponseInvalideEcartee ==
    (/\ ~analyse.je_suis_espion
     /\ AnalyseFaite
     /\ \/ analyse.service.etat = "invalide"
        \/ analyse.service.etat = "valide" /\ analyse.service.suspect \notin Ids)
       => analyse.resultat \in ResultatsDeRepli

\* C29: the analysis of an agent whose role is "espion" posts no request to
\* the analysis service.
EspionSansRequete ==
    (analyse.je_suis_espion /\ AnalyseFaite) => ~analyse.resultat.requete

\* the analysis of an adversary returned while the service would have given
\* a valid answer
EspionAnalyseServiceValide ==
    /\ analyse.je_suis_espion
    /\ AnalyseFaite
    /\ analyse.service.etat = "valide"
    /\ analyse.temperatures_autres # <<>>

\* C26: the publications of a round are the configuration first, then role
\* assignments only, exactly one for each participant.
ConfigPuisUnRoleParCapteur ==
    serveur.publies # <<>>
       => /\ serveur.publies[1] = Pub("config", None, "")
          /\ \A k \in 2..Len(serveur.publies) : serveur.publies[k].topic = "role"
          /\ \A i \in Ids :
                Cardinality({k \in 1..Len(serveur.publies) :
                               /\ serveur.publies[k].topic = "role"
                               /\ serveur.publies[k].id = i}) = 1

\* a round is under way whose spy is participant 3: the configuration and
\* the four roles were published
RolesPubliesApresConfig ==
    /\ serveur.partie_en_cours
    /\ serveur.espion_id = 3
    /\ Len(serveur.publies) = 1 + Len(capteurs_ids)

\* every participant other than the agent has MAX_PUBLICATIONS collected samples
TousLesPairsOntK ==
    \A i \in Ids \ {capteur.capteur_id} :
        /\ Position(capteur.temperatures_recues, i) # 0
        /\ Len(Obtenir(capteur.temperatures_recues, i)) >= MAX_PUBLICATIONS

\* C23: a thread that analyses while some peer has fewer than
\* MAX_PUBLICATIONS collected samples has waited for the timeout, 30 seconds.
AttenteJusquAuDelai ==
    [][\A t \in 1..Len(capteur.fils) :
          (/\ capteur.fils[t].pc = "analyse"
           /\ capteur'.fils[t].pc # "analyse"
           /\ ~TousLesPairsOntK)
             => capteur.fils[t].attente >= 30]_vars

\* C24: once a publication thread of the agent has published its
\* MAX_PUBLICATIONS samples, the agent eventually publishes a vote.
VoteApresPublications ==
    (\E t \in 1..Len(capteur.fils) : capteur.fils[t].i = MAX_PUBLICATIONS)
       ~> (NbPublies("vote") >= 1)

\* the configuration message and what its handling makes of the agent
MessageConfig == Msg("config", None, ChargeUtile("json", "", 0))

ApresConfig == capteur_on_message(capteur, MessageConfig)

\* C27 as stated: handling a configuration message starts no publication
\* thread, whatever was received before.
ConfigNeDemarreRien == Len(ApresConfig.fils) = Len(capteur.fils)

\* C27: handling a configuration message records the participant set and
\* starts one publication thread exactly when a role was already received
\* and no sample was recorded yet; it changes nothing else.
ConfigDemarreSiRoleRecu ==
    /\ ApresConfig.tous_capteurs = capteurs_ids
    /\ ApresConfig.config_recue
    /\ ApresConfig.fils =
         (IF capteur.role_recu /\ capteur.nb_publications = 0
            THEN Append(capteur.fils, [pc |-> "obtenir", i |-> 0, temperature |-> 0,
                                       attente |-> 0])
            ELSE capteur.fils)
    /\ ApresConfig = [capteur EXCEPT !.tous_capteurs = ApresConfig.tous_capteurs,
                                     !.config_recue = ApresConfig.config_recue,
                                     !.fils = ApresConfig.fils]

\* the role was received before any configuration: handling the
\* configuration starts the first publication thread
ConfigApresRole ==
    /\ capteur.role_recu
    /\ ~capteur.config_recue
    /\ capteur.fils = <<>>
    /\ Len(ApresConfig.fils) = 1

\* C28: once a publication thread is started, handling a role message
\* changes neither the role of the agent nor the sample its thread fetches.
RoleFixePourLaPartie ==
    capteur.fils # <<>>
       => \A r \in {"espion", "normal"} :
             LET apres == capteur_on_message(capteur,
                             Msg("role", capteur.capteur_id, ChargeUtile("json", r, 0)))
             IN  /\ apres.role = capteur.role
                 /\ \A lecture \in Lectures, valeur_poisson \in Tirages :
                       obtenir_temperature(apres, lecture, valeur_poisson)
                         = obtenir_temperature(capteur, lecture, valeur_poisson)

\* the fields the publication threads and the handlers share
ChampsPartages == {"nb_publications", "mes_temperatures_publiees", "temperatures_recues"}

\* process p is at an access of one of the shared fields
AccesPartage(p) ==
    /\ Courante(execution, p).op \in {"lire", "ecrire", "demarrer"}
    /\ Courante(execution, p).champs \cap ChampsPartages # {}

\* C30: a process that reads or writes the publication counter, the own
\* sample list or the collected sample lists holds the lock, and no two
\* processes are at such an access together.
AccesSousVerrou ==
    /\ \A p \in Processus(execution) : AccesPartage(p) => execution.verrou = p
    /\ \A p, q \in Processus(execution) : (AccesPartage(p) /\ AccesPartage(q)) => p = q

\* a publication thread records a sample under the lock while the handler of
\* a telemetry message waits for the lock
EnregistrementPendantReception ==
    /\ Len(execution.fils) >= 1
    /\ Courante(execution, 2).ligne = 649
    /\ execution.verrou = 2
    /\ Courante(execution, 1).ligne = 592

\* C25: when every agent announces its presence, the bus delivers every
\* message and every call of the analysis service returns, a round the
\* arbiter started is eventually resolved and the state of the round reset.
PartieDuSystemeResolue ==
    serveur.partie_en_cours ~> (~serveur.partie_en_cours /\ serveur.votes = <<>>)

\* the blocking calls of the publication thread: requests.get of the
\* telemetry source, publish of the sample, time.sleep(5), time.sleep(3),
\* analyser_espion, publish of the vote
LignesBloquantes == {626, 660, 668, 678, 701, 731}

\* process p is in the blocking call of line ligne
DansAppel(p, ligne) ==
    /\ Courante(execution, p).op = "appel"
    /\ Courante(execution, p).ligne = ligne

\* C31: a process that is in a blocking call (the request to the telemetry
\* source, the publication on the bus, the sleep between two samples, the
\* wait after the publications, the call of the analysis service) does not
\* hold the lock of the agent.
VerrouLibrePendantAppel ==
    \A p \in Processus(execution) :
        \A ligne \in LignesBloquantes :
            DansAppel(p, ligne) => execution.verrou # p

\* a publication thread is in the call of the analysis service while the
\* network thread holds the lock to record a received sample
AppelDuServicePendantReception ==
    /\ execution.verrou = 1
    /\ \E p \in Processus(execution) : p # 1 /\ DansAppel(p, 701)

\* the sample an honest agent draws from the answer lecture of the source
echantillon_attendu(lecture) ==
    IF lecture_reussie(lecture) THEN arrondir(lecture.temperature) ELSE 100

\* the requests of the honest agent whose sample is recorded and published:
\* all of them, but the last one while its sample is not recorded yet
NbRequetesServies ==
    IF capteur.fils # <<>> /\ capteur.fils[1].pc = "enregistrer"
      THEN Len(source) - 1
      ELSE Len(source)

\* C32 as stated: each sample of an honest agent is the reading of the
\* source, to the hundredth of a degree, when the request succeeds, and 10.0
\* when it fails; the agent publishes one sample for each request.
EchantillonEstLaLecture ==
    capteur.role = "normal" =>
        /\ Len(capteur.mes_temperatures_publiees) = NbRequetesServies
        /\ NbPublies("temperature") = NbRequetesServies
        /\ \A k \in 1..Len(capteur.mes_temperatures_publiees) :
              /\ capteur.publies[k].val = capteur.mes_temperatures_publiees[k]
              /\ IF lecture_reussie(source[k])
                   THEN 10 * capteur.mes_temperatures_publiees[k] = source[k].temperature
                   ELSE capteur.mes_temperatures_publiees[k] = 100

\* C32: each sample of an honest agent is the reading of the source rounded
\* to one decimal when the request succeeds, and 10.0 when it fails, by an
\* exception or by a status that is not 200; the agent publishes one sample
\* for each request, failed or not.
EchantillonLectureArrondieOuDefaut ==
    capteur.role = "normal" =>
        /\ Len(capteur.mes_temperatures_publiees) = NbRequetesServies
        /\ NbPublies("temperature") = NbRequetesServies
        /\ \A k \in 1..Len(capteur.mes_temperatures_publiees) :
              /\ capteur.publies[k].val = capteur.mes_temperatures_publiees[k]
              /\ capteur.mes_temperatures_publiees[k] = echantillon_attendu(source[k])

\* an honest agent has published its MAX_PUBLICATIONS samples; the source
\* raised an exception for one, answered a status that is not 200 for
\* another, and a reading for a third
SourceEnEchecPuisLecture ==
    /\ capteur.role = "normal"
    /\ NbPublies("temperature") = MAX_PUBLICATIONS
    /\ \E i, j, k \in 1..Len(source) :
          /\ source[i].statut = 0
          /\ source[j].statut = 500
          /\ lecture_reussie(source[k])
          /\ capteur.mes_temperatures_publiees[k] = 123

\* C33: the temperature the generator returns is in [-50, 60], by either
\* method, with or without a base temperature, whatever the draw.
TemperatureDansLaPlage ==
    generation.faite => generation.temperature \in -500..600

\* the draw gives a temperature above 60 degrees, and the generator returns 60
TemperaturePlafonnee ==
    /\ generation.faite
    /\ generation.methode = "generer_temperature_aberrante"
    /\ -100 + 35 * generation.valeur_poisson > 600
    /\ generation.temperature = 600

\* the fields of the arbiter that hold the registrations, the votes and the
\* phase of the round
EtatDeLaPartie(self) ==
    <<self.capteurs_connectes, self.votes, self.nb_votes_recus, self.espion_id,
      self.partie_en_cours>>

\* C34: a message whose payload is not JSON, vote or presence, leaves the
\* registrations, the votes, the vote count, the spy and the phase as they
\* were, and a valid vote of the same sender is then handled as if the
\* message had never been delivered.
MessageMalformeSansEffet ==
    \A msg \in Messages :
        msg.payload.forme = "malforme" =>
            \A e \in Ids :
                LET apres == on_message(serveur, msg, e)
                IN  /\ EtatDeLaPartie(apres) = EtatDeLaPartie(serveur)
                    /\ \A s \in {i \in Ids : i <= MaxSuspect} :
                          LET vote == Msg("votes", msg.capteur_id,
                                          [forme |-> "json", suspect |-> s])
                          IN  EtatDeLaPartie(on_message(apres, vote, None))
                                = EtatDeLaPartie(on_message(serveur, vote, None))

\* C35: the vote counter is the number of recorded votes, and every recorded
\* vote is the vote of a participant that accuses a participant.
CompteurEgalVotes ==
    /\ serveur.nb_votes_recus = Len(serveur.votes)
    /\ \A i \in 1..Len(serveur.votes) :
          /\ serveur.votes[i][1] \in Ids
          /\ serveur.votes[i][2] \in Ids

\* a round is under way and all the participants but one have voted
VotesEnregistresSaufUn ==
    /\ serveur.partie_en_cours
    /\ Len(serveur.votes) = Len(capteurs_ids) - 1
    /\ serveur.nb_votes_recus = Len(capteurs_ids) - 1

\* C36: when the arbiter has handled a message, it does not hold the votes
\* of all the participants, and if the call analysed the votes, a spy was
\* assigned and the call went on to the reset.
ResolutionJusquALaReinitialisation ==
    /\ Len(serveur.votes) < Len(capteurs_ids)
    /\ Imprime(serveur.sortie, "analyse") => ResultatAnnonce(serveur.sortie)

\* the role message of the round after the one the agent has played
MessageRoleSuivant ==
    Msg("role", capteur.capteur_id, ChargeUtile("json", role_attribue, 0))

\* the agent once it has handled the configuration and the role of the next round
ApresPartieSuivante ==
    capteur_on_message(capteur_on_message(capteur, MessageConfig), MessageRoleSuivant)

\* C37: an agent whose publication thread has voted starts a publication
\* thread again when it handles the configuration and the role of the next
\* round, and holds then no sample of the round it has played.
AgentJoueLaPartieSuivante ==
    (/\ capteur.fils # <<>>
     /\ \A t \in 1..Len(capteur.fils) : capteur.fils[t].pc = "fini")
        => /\ Len(ApresPartieSuivante.fils) = Len(capteur.fils) + 1
           /\ ApresPartieSuivante.mes_temperatures_publiees = <<>>
           /\ ApresPartieSuivante.temperatures_recues = <<>>

\* C38: an agent that has started a publication thread, or published a
\* sample or a vote, has received the configuration and its role.
RienAvantConfigEtRole ==
    (capteur.fils # <<>> \/ capteur.publies # <<>>)
        => (capteur.config_recue /\ capteur.role_recu)

\* the agent has received the configuration and its role, and has published
\* its MAX_PUBLICATIONS samples and its vote
VotePublieApresConfigEtRole ==
    /\ capteur.config_recue
    /\ capteur.role_recu
    /\ NbPublies("temperature") = MAX_PUBLICATIONS
    /\ NbPublies("vote") = 1

TypeOK ==
    /\ serveur.espion_id \in Ids \cup {None}
    /\ serveur.nb_votes_recus \in 0..Len(capteurs_ids)
    /\ serveur.capteurs_connectes \subseteq Ids
    /\ serveur.partie_en_cours \in BOOLEAN
====
